---- MODULE Spec2Model ----
(***************************************************************************)
(* Lifecycle model of board_driver::mock_driver::MockDriver.               *)
(*                                                                         *)
(* Processes: the foreground control path (the owner of the MockDriver,    *)
(* which calls new / start_acquisition / stop_acquisition / shutdown /     *)
(* get_status / get_config and finally drops the driver), the background   *)
(* sampling tasks spawned by start_acquisition, and the consumer that      *)
(* holds the receiving end of the event channel.                           *)
(*                                                                         *)
(* Every critical section of the std Mutex is one atomic step; every       *)
(* .await (channel send, sleep, join) separates two steps.  The Mutex is   *)
(* never poisoned, because no code path panics while holding the guard.    *)
(***************************************************************************)
EXTENDS Integers, Sequences, FiniteSets, TLC

\* ------------------------------------------------------------------ bounds
MaxBatch == 1
MaxChannels == 1
MaxExtra == 1
MaxCalls == 3
MaxData == 2

\* --------------------------------------------------------- program constants
MAX_BUFFER_SIZE == 10000

VARIABLES
    args,          \* the arguments of MockDriver::new: config, additional_channel_buffering
    new_result,    \* "none" before new() has run, then "Ok" or "ConfigurationError"
    inner,         \* MockInner: config (Option), running, status
    task_handle,   \* MockDriver.task_handle: Option<JoinHandle>, the id of a task
    capacity,      \* the buffer size of mpsc::channel
    queue,         \* events buffered in the channel
    rx_alive,      \* the consumer still holds the Receiver
    tasks,         \* the spawned background tasks, by spawn order
    pc,            \* position of the foreground control path
    frames,        \* call stack of the foreground control path
    status_local,  \* the local `status` of notify_status_change and of drop
    handle_local,  \* the local `handle` taken by stop_acquisition
    ret,           \* value returned by the last get_status / get_config
    log,           \* history: every event ever enqueued, with its sender
    hist,          \* history: the completed start/stop/shutdown calls and their results
    pre,           \* history: the driver state when the current top-level call was made
    received,      \* history: the events the consumer has taken from the channel
    lock,          \* holder of the Mutex guarding MockInner: 0 (free), -1 (foreground) or a task id
    clock,         \* the wall clock in microseconds (batch generation)
    gen            \* the batch generation of one loop iteration

batch_vars == <<clock, gen>>

vars == <<args, new_result, inner, task_handle, capacity, queue, rx_alive, tasks,
          pc, frames, status_local, handle_local, ret, log, hist, pre,
          received, lock, clock, gen>>

\* ------------------------------------------------------------------ types
None == <<>>
Some(x) == <<x>>
Unwrap(o) == o[1]

DriverStatus == {"NotInitialized", "Ok", "Error", "Stopped", "Running"}

StatusChange(s) == [type |-> "StatusChange", status |-> s, n |-> 0]
Data(n) == [type |-> "Data", status |-> "-", n |-> n]

\* The sample rates tried: zero, and the 250 Hz of the reference configuration.
SampleRates == {0, 250}

\* AdcConfig as mock_driver.rs uses it; channels is modelled by its length.
AdcConfig ==
    [sample_rate : SampleRates,
     batch_size  : (0..MaxBatch) \cup {MAX_BUFFER_SIZE},
     nchannels   : 0..MaxChannels,
     mock        : BOOLEAN]

MockInnerEmpty == [config |-> None, running |-> FALSE, status |-> "NotInitialized"]

\* ------------------------------------------------------------- history helpers
FgEvents == {i \in 1..Len(log) : log[i].by = 0}
DataEvents == {i \in 1..Len(log) : log[i].ev.type = "Data"}
Snapshot ==
    [inner |-> inner, task_handle |-> task_handle, ntasks |-> Len(tasks),
     nlog |-> Len(log), rx_alive |-> rx_alive]

\* ------------------------------------------------------------------ new
\* Mutant of NewValidate: the buffer ceiling is exclusive.
NewValidateCeilingExclusive(config, additional_channel_buffering) ==
    IF ~config.mock THEN "ConfigurationError"
    ELSE IF config.batch_size = 0 THEN "ConfigurationError"
    ELSE IF config.batch_size < config.nchannels THEN "ConfigurationError"
    ELSE IF config.batch_size + additional_channel_buffering >= MAX_BUFFER_SIZE
         THEN "ConfigurationError"
    ELSE "Ok"

\* The validation of MockDriver::new: the error it returns, or "Ok".
NewValidate(config, additional_channel_buffering) ==
    IF ~config.mock THEN "ConfigurationError"
    ELSE IF config.batch_size = 0 THEN "ConfigurationError"
    ELSE IF config.batch_size < config.nchannels THEN "ConfigurationError"
    ELSE IF config.batch_size + additional_channel_buffering > MAX_BUFFER_SIZE
         THEN "ConfigurationError"
    ELSE "Ok"

New ==
    /\ pc = "unborn"
    /\ new_result' = NewValidate(args.config, args.additional)
    /\ IF new_result' = "Ok"
       THEN /\ inner' = [config |-> Some(args.config), running |-> FALSE, status |-> "Ok"]
            /\ capacity' = args.config.batch_size + args.additional
            /\ rx_alive' = TRUE
            /\ pc' = "idle"
       ELSE /\ pc' = "rejected"
            /\ UNCHANGED <<inner, capacity, rx_alive>>
    /\ UNCHANGED <<batch_vars, lock, received, args, task_handle, queue, tasks, frames, status_local,
                   handle_local, ret, log, hist, pre>>

\* No batch is being generated.
GenIdle == [pc |-> "idle", sample_rate |-> 0, batch_size |-> 0, start_time |-> 0,
            sample_interval |-> 0, base_timestamp |-> 0, batch |-> <<>>]

\* The arguments a caller can pass to MockDriver::new.
NewArgs == [config : AdcConfig, additional : 0..MaxExtra]

DriverInit ==
    /\ new_result = "none"
    /\ inner = MockInnerEmpty
    /\ task_handle = None
    /\ capacity = 0
    /\ queue = <<>>
    /\ rx_alive = FALSE
    /\ tasks = <<>>
    /\ pc = "unborn"
    /\ frames = <<>>
    /\ status_local = "NotInitialized"
    /\ handle_local = None
    /\ ret = [op |-> "none", status |-> "-", config |-> None, err |-> "Ok"]
    /\ log = <<>>
    /\ hist = <<>>
    /\ pre = [inner |-> MockInnerEmpty, task_handle |-> None, ntasks |-> 0,
              nlog |-> 0, rx_alive |-> FALSE]
    /\ received = <<>>
    /\ lock = 0

Init ==
    /\ args \in NewArgs
    /\ DriverInit
    /\ clock = 0
    /\ gen = GenIdle

\* ------------------------------------------------------------------- Mutex
\* self.inner.lock() returns the guard: nobody holds the Mutex.  The guard is
\* dropped at the end of the block, which is the end of the same step, so the
\* step leaves the Mutex free.
AcquireLock == lock = 0

\* ------------------------------------------------------------ event channel
\* tokio mpsc::Sender::send: fails once the Receiver is gone, completes when a
\* slot is free, and otherwise stays suspended.
\* Mutant of SendReady: a send completes even when the buffer is full.
SendReadyNoLimit == rx_alive

SendFails == ~rx_alive
SendReady == rx_alive /\ Len(queue) < capacity

\* The log keeps, with each event, its sender and the value running had when
\* the send completed.
Enqueue(ev, by) ==
    /\ queue' = Append(queue, ev)
    /\ log' = Append(log, [ev |-> ev, by |-> by, running |-> inner.running])

\* ------------------------------------------------------- foreground plumbing
\* Nothing has been returned by a query since the last call.
NoRet == [op |-> "none", status |-> "-", config |-> None, err |-> "Ok"]

\* A top-level call is made: the caller owns the driver and no call is pending.
\* At most MaxCalls calls are made.
Call(f, entry) ==
    /\ pc = "idle"
    /\ Len(hist) < MaxCalls
    /\ pc' = entry
    /\ frames' = <<f>>
    /\ pre' = Snapshot
    /\ ret' = NoRet

\* The top-level call returns r to the owner.
Return(r) ==
    /\ pc' = "idle"
    /\ frames' = <<>>
    /\ hist' = Append(hist, [op |-> frames[1], result |-> r])

\* self.notify_status_change().await is entered from the current frame.
EnterNotify ==
    /\ pc' = "notify_read"
    /\ frames' = Append(frames, "notify_status_change")

\* ------------------------------------------------------- start_acquisition
CallStart ==
    /\ Call("start_acquisition", "start_check")
    /\ UNCHANGED <<batch_vars, lock, received, args, new_result, inner, task_handle, capacity, queue, rx_alive,
                   tasks, status_local, handle_local, log, hist>>

\* Mutants of StartPrecondition: the running check is missing; the config check
\* is missing; the running check returns the wrong error.
StartPreconditionNoRunning(in) ==
    IF in.config = None THEN "NotConfigured" ELSE "Ok"

StartPreconditionNoConfig(in) ==
    IF in.running THEN "ConfigurationError" ELSE "Ok"

StartPreconditionWrongError(in) ==
    IF in.running THEN "NotConfigured"
    ELSE IF in.config = None THEN "NotConfigured"
    ELSE "Ok"

\* The precondition block of start_acquisition: the error returned, or "Ok".
StartPrecondition(in) ==
    IF in.running THEN "ConfigurationError"
    ELSE IF in.config = None THEN "NotConfigured"
    ELSE "Ok"

StartCheck ==
    /\ pc = "start_check"
    /\ AcquireLock
    /\ IF StartPrecondition(inner) = "Ok"
       THEN /\ pc' = "start_set"
            /\ UNCHANGED <<frames, hist>>
       ELSE Return(StartPrecondition(inner))
    /\ UNCHANGED <<batch_vars, lock, received, args, new_result, inner, task_handle, capacity, queue, rx_alive,
                   tasks, status_local, handle_local, ret, log, pre>>

\* Mutant of StartSet: the status is not updated.
StartSetNoStatus ==
    /\ pc = "start_set"
    /\ AcquireLock
    /\ inner' = [inner EXCEPT !.running = TRUE]
    /\ EnterNotify
    /\ UNCHANGED <<batch_vars, lock, received, args, new_result, task_handle, capacity, queue, rx_alive,
                   tasks, status_local, handle_local, ret, log, hist, pre>>

StartSet ==
    /\ pc = "start_set"
    /\ AcquireLock
    /\ inner' = [inner EXCEPT !.running = TRUE, !.status = "Running"]
    /\ EnterNotify
    /\ UNCHANGED <<batch_vars, lock, received, args, new_result, task_handle, capacity, queue, rx_alive,
                   tasks, status_local, handle_local, ret, log, hist, pre>>

\* The state of a task that tokio::spawn has just created.
SpawnedTask == [pc |-> "init", config |-> None, cur |-> None]

StartSpawn ==
    /\ pc = "start_spawn"
    /\ tasks' = Append(tasks, SpawnedTask)
    /\ task_handle' = Some(Len(tasks) + 1)
    /\ Return("Ok")
    /\ UNCHANGED <<batch_vars, lock, received, args, new_result, inner, capacity, queue, rx_alive,
                   status_local, handle_local, ret, log, pre>>

\* ------------------------------------------------------ notify_status_change
NotifyRead ==
    /\ pc = "notify_read"
    /\ AcquireLock
    /\ status_local' = inner.status
    /\ pc' = "notify_send"
    /\ UNCHANGED <<batch_vars, lock, received, args, new_result, inner, task_handle, capacity, queue, rx_alive,
                   tasks, frames, handle_local, ret, log, hist, pre>>

\* Where the foreground continues when notify_status_change returns Ok.
NotifyOk ==
    LET caller == frames[Len(frames) - 1] IN
    IF caller = "start_acquisition"
    THEN pc' = "start_spawn" /\ frames' = <<"start_acquisition">> /\ UNCHANGED hist
    ELSE IF caller = "stop_acquisition" /\ frames[1] = "shutdown"
    THEN pc' = "shut_set" /\ frames' = <<"shutdown">> /\ UNCHANGED hist
    ELSE Return("Ok")

\* Mutant of NotifySend: the error of the send is discarded.
NotifySendIgnoresError ==
    /\ pc = "notify_send"
    /\ \/ /\ SendFails
          /\ NotifyOk
          /\ UNCHANGED <<queue, log>>
       \/ /\ SendReady
          /\ Enqueue(StatusChange(status_local), 0)
          /\ NotifyOk
    /\ status_local' = "NotInitialized"
    /\ UNCHANGED <<batch_vars, lock, received, args, new_result, inner, task_handle, capacity, rx_alive,
                   tasks, handle_local, ret, pre>>

NotifySend ==
    /\ pc = "notify_send"
    /\ \/ /\ SendFails
          /\ Return("Other")
          /\ UNCHANGED <<queue, log>>
       \/ /\ SendReady
          /\ Enqueue(StatusChange(status_local), 0)
          /\ NotifyOk
    /\ status_local' = "NotInitialized"
    /\ UNCHANGED <<batch_vars, lock, received, args, new_result, inner, task_handle, capacity, rx_alive,
                   tasks, handle_local, ret, pre>>

\* -------------------------------------------------------- stop_acquisition
CallStop ==
    /\ Call("stop_acquisition", "stop_check")
    /\ UNCHANGED <<batch_vars, lock, received, args, new_result, inner, task_handle, capacity, queue, rx_alive,
                   tasks, status_local, handle_local, log, hist>>

\* stop_acquisition returns Ok: to shutdown when nested, else to the owner.
StopReturnsOk ==
    IF frames[1] = "shutdown"
    THEN pc' = "shut_set" /\ frames' = <<"shutdown">> /\ UNCHANGED hist
    ELSE Return("Ok")

\* Mutant of StopCheck: the running flag is not cleared.
StopCheckNoSignal ==
    /\ pc = "stop_check"
    /\ AcquireLock
    /\ IF ~inner.running
       THEN StopReturnsOk
       ELSE /\ pc' = "stop_take"
            /\ UNCHANGED <<frames, hist>>
    /\ UNCHANGED <<batch_vars, lock, received, args, new_result, inner, task_handle, capacity,
                   queue, rx_alive, tasks, status_local, handle_local, ret, log, pre>>

\* Mutant of StopCheck: a stop while not running still marks the driver Stopped.
StopCheckMarksStopped ==
    /\ pc = "stop_check"
    /\ AcquireLock
    /\ IF ~inner.running
       THEN /\ StopReturnsOk
            /\ inner' = [inner EXCEPT !.status = "Stopped"]
       ELSE /\ inner' = [inner EXCEPT !.running = FALSE]
            /\ pc' = "stop_take"
            /\ UNCHANGED <<frames, hist>>
    /\ UNCHANGED <<batch_vars, lock, received, args, new_result, task_handle, capacity, queue, rx_alive,
                   tasks, status_local, handle_local, ret, log, pre>>

StopCheck ==
    /\ pc = "stop_check"
    /\ AcquireLock
    /\ IF ~inner.running
       THEN /\ StopReturnsOk
            /\ UNCHANGED inner
       ELSE /\ inner' = [inner EXCEPT !.running = FALSE]
            /\ pc' = "stop_take"
            /\ UNCHANGED <<frames, hist>>
    /\ UNCHANGED <<batch_vars, lock, received, args, new_result, task_handle, capacity, queue, rx_alive,
                   tasks, status_local, handle_local, ret, log, pre>>

\* Mutant of StopTake: the handle is taken but never awaited.
StopTakeNoJoin ==
    /\ pc = "stop_take"
    /\ handle_local' = None
    /\ task_handle' = None
    /\ pc' = "stop_set"
    /\ UNCHANGED <<batch_vars, lock, received, args, new_result, inner, capacity, queue, rx_alive,
                   tasks, frames, status_local, ret, log, hist, pre>>

StopTake ==
    /\ pc = "stop_take"
    /\ handle_local' = task_handle
    /\ task_handle' = None
    /\ pc' = IF task_handle = None THEN "stop_set" ELSE "stop_await"
    /\ UNCHANGED <<batch_vars, lock, received, args, new_result, inner, capacity, queue, rx_alive,
                   tasks, frames, status_local, ret, log, hist, pre>>

Terminated == {"done", "panicked"}
Active(t) == tasks[t].pc \notin Terminated
ActiveTasks == {t \in 1..Len(tasks) : Active(t)}

\* Mutant of JoinReady: the join completes at once.
JoinReadyNoWait(h) == h \in 1..Len(tasks)

\* handle.await completes when the task has finished (returned or panicked).
JoinReady(h) == tasks[h].pc \in Terminated

StopAwait ==
    /\ pc = "stop_await"
    /\ JoinReady(Unwrap(handle_local))
    /\ handle_local' = None
    /\ pc' = "stop_set"
    /\ UNCHANGED <<batch_vars, lock, received, args, new_result, inner, task_handle, capacity, queue, rx_alive,
                   tasks, frames, status_local, ret, log, hist, pre>>

\* Mutant of StopSet: the status is left as it was.
StopSetKeepsStatus ==
    /\ pc = "stop_set"
    /\ AcquireLock
    /\ UNCHANGED inner
    /\ EnterNotify
    /\ UNCHANGED <<batch_vars, lock, received, args, new_result, task_handle, capacity, queue, rx_alive,
                   tasks, status_local, handle_local, ret, log, hist, pre>>

StopSet ==
    /\ pc = "stop_set"
    /\ AcquireLock
    /\ inner' = [inner EXCEPT !.status = "Stopped"]
    /\ EnterNotify
    /\ UNCHANGED <<batch_vars, lock, received, args, new_result, task_handle, capacity, queue, rx_alive,
                   tasks, status_local, handle_local, ret, log, hist, pre>>

\* ----------------------------------------------------------------- shutdown
CallShutdown ==
    /\ Call("shutdown", "shut_check")
    /\ UNCHANGED <<batch_vars, lock, received, args, new_result, inner, task_handle, capacity, queue, rx_alive,
                   tasks, status_local, handle_local, log, hist>>

ShutCheck ==
    /\ pc = "shut_check"
    /\ AcquireLock
    /\ IF inner.running
       THEN pc' = "stop_check" /\ frames' = <<"shutdown", "stop_acquisition">>
       ELSE pc' = "shut_set" /\ UNCHANGED frames
    /\ UNCHANGED <<batch_vars, lock, received, args, new_result, inner, task_handle, capacity, queue, rx_alive,
                   tasks, status_local, handle_local, ret, log, hist, pre>>

\* Mutant of ShutSet: the config is kept.
ShutSetKeepsConfig ==
    /\ pc = "shut_set"
    /\ AcquireLock
    /\ inner' = [inner EXCEPT !.status = "NotInitialized"]
    /\ EnterNotify
    /\ UNCHANGED <<batch_vars, lock, received, args, new_result, task_handle, capacity, queue, rx_alive,
                   tasks, status_local, handle_local, ret, log, hist, pre>>

ShutSet ==
    /\ pc = "shut_set"
    /\ AcquireLock
    /\ inner' = [inner EXCEPT !.status = "NotInitialized", !.config = None]
    /\ EnterNotify
    /\ UNCHANGED <<batch_vars, lock, received, args, new_result, task_handle, capacity, queue, rx_alive,
                   tasks, status_local, handle_local, ret, log, hist, pre>>

\* ------------------------------------------------------ get_status, get_config
\* The outcome of self.inner.lock(): Err(PoisonError) arises only after a holder
\* of the guard panicked, and no block that holds the guard can panic.
LockOutcome == "Ok"

\* Mutant of get_status: the fallback is returned in both branches.
get_status_fallback(lk, in) == "NotInitialized"

get_status(lk, in) == IF lk = "Ok" THEN in.status ELSE "NotInitialized"
get_config(in) == IF in.config = None THEN "NotConfigured" ELSE "Ok"

GetStatus ==
    /\ pc = "idle"
    /\ AcquireLock
    /\ ret' = [op |-> "get_status", status |-> get_status(LockOutcome, inner),
               config |-> None, err |-> "Ok"]
    /\ UNCHANGED <<batch_vars, lock, received, args, new_result, inner, task_handle, capacity, queue, rx_alive,
                   tasks, pc, frames, status_local, handle_local, log, hist, pre>>

GetConfig ==
    /\ pc = "idle"
    /\ AcquireLock
    /\ ret' = [op |-> "get_config", status |-> "-",
               config |-> inner.config, err |-> get_config(inner)]
    /\ UNCHANGED <<batch_vars, lock, received, args, new_result, inner, task_handle, capacity, queue, rx_alive,
                   tasks, pc, frames, status_local, handle_local, log, hist, pre>>

\* --------------------------------------------------------------------- Drop
DropRead ==
    /\ pc = "idle"
    /\ AcquireLock
    /\ status_local' = inner.status
    /\ pc' = "drop_clean"
    /\ frames' = <<"drop">>
    /\ pre' = Snapshot
    /\ ret' = NoRet
    /\ UNCHANGED <<batch_vars, lock, received, args, new_result, inner, task_handle, capacity, queue, rx_alive,
                   tasks, handle_local, log, hist>>

\* Mutant of DropClean: only the status is reset.
DropCleanStatusOnly ==
    /\ pc = "drop_clean"
    /\ AcquireLock
    /\ inner' = IF status_local # "NotInitialized"
                THEN [inner EXCEPT !.status = "NotInitialized"]
                ELSE inner
    /\ task_handle' = None
    /\ status_local' = "NotInitialized"
    /\ pc' = "dropped"
    /\ frames' = <<>>
    /\ UNCHANGED <<batch_vars, lock, received, args, new_result, capacity, queue, rx_alive,
                   tasks, handle_local, ret, log, hist, pre>>

\* The cleanup branch of drop, then the fields of the driver are released:
\* the JoinHandle is dropped (the task is detached) and so is the driver's Sender.
DropClean ==
    /\ pc = "drop_clean"
    /\ AcquireLock
    /\ inner' = IF status_local # "NotInitialized"
                THEN [config |-> None, running |-> FALSE, status |-> "NotInitialized"]
                ELSE inner
    /\ task_handle' = None
    /\ status_local' = "NotInitialized"
    /\ pc' = "dropped"
    /\ frames' = <<>>
    /\ UNCHANGED <<batch_vars, lock, received, args, new_result, capacity, queue, rx_alive,
                   tasks, handle_local, ret, log, hist, pre>>

\* The Senders of the event channel that are alive: the driver's tx and the
\* clone each running task holds.
Senders ==
    (IF pc \in {"unborn", "rejected", "dropped"} THEN 0 ELSE 1)
    + Cardinality(ActiveTasks)

\* ---------------------------------------------------------- background task
\* Integer division in Rust panics on a zero divisor.
DivPanics(divisor) == divisor = 0
sample_interval(cfg) == 1000000 \div cfg.sample_rate
sleep_time(cfg) == (1000 * cfg.batch_size) \div cfg.sample_rate

Finish(t, how) ==
    tasks' = [tasks EXCEPT ![t] = [pc |-> how, config |-> None, cur |-> None]]

\* Mutant of MakeBatch: one sample point per channel.
MakeBatchPerChannel(cfg) == Data(cfg.nchannels)

\* The batch the loop builds: current_batch_size sample points.
MakeBatch(cfg) == Data(cfg.batch_size)

\* Reads the config under the lock, then takes the start timestamp.
TaskInit(t) ==
    /\ tasks[t].pc = "init"
    /\ AcquireLock
    /\ IF inner.config = None
       THEN Finish(t, "done")
       ELSE \E ts_ok \in BOOLEAN :
              IF ts_ok
              THEN tasks' = [tasks EXCEPT ![t].pc = "loop", ![t].config = inner.config]
              ELSE Finish(t, "done")
    /\ UNCHANGED <<batch_vars, lock, received, args, new_result, inner, task_handle, capacity, queue, rx_alive,
                   pc, frames, status_local, handle_local, ret, log, hist, pre>>

\* Mutant of TaskLoop: the guard is not dropped before the batch is built and sent.
TaskLoopKeepsGuard(t) ==
    /\ tasks[t].pc = "loop"
    /\ AcquireLock
    /\ (inner.running /\ inner.config # None /\ rx_alive)
       => Cardinality(DataEvents) < MaxData
    /\ IF ~inner.running \/ inner.config = None
       THEN Finish(t, "done") /\ lock' = 0
       ELSE /\ tasks' = [tasks EXCEPT ![t].pc = "gen", ![t].cur = inner.config]
            /\ lock' = t
    /\ UNCHANGED <<batch_vars, received, args, new_result, inner, task_handle, capacity, queue, rx_alive,
                   pc, frames, status_local, handle_local, ret, log, hist, pre>>

\* Mutant of TaskLoop: the loop does not look at running.
TaskLoopIgnoresRunning(t) ==
    /\ tasks[t].pc = "loop"
    /\ AcquireLock
    /\ (inner.config # None /\ rx_alive)
       => Cardinality(DataEvents) < MaxData
    /\ IF inner.config = None
       THEN Finish(t, "done")
       ELSE tasks' = [tasks EXCEPT ![t].pc = "gen", ![t].cur = inner.config]
    /\ UNCHANGED <<batch_vars, lock, received, args, new_result, inner, task_handle, capacity, queue, rx_alive,
                   pc, frames, status_local, handle_local, ret, log, hist, pre>>

\* Head of the acquisition loop: snapshot running and config under the lock.
\* Once MaxData batches exist, a further iteration is not begun while it could
\* still enqueue one (the task stays at the loop head until running is cleared
\* or the Receiver is gone).
TaskLoop(t) ==
    /\ tasks[t].pc = "loop"
    /\ AcquireLock
    /\ (inner.running /\ inner.config # None /\ rx_alive)
       => Cardinality(DataEvents) < MaxData
    /\ IF ~inner.running \/ inner.config = None
       THEN Finish(t, "done")
       ELSE tasks' = [tasks EXCEPT ![t].pc = "gen", ![t].cur = inner.config]
    /\ UNCHANGED <<batch_vars, lock, received, args, new_result, inner, task_handle, capacity, queue, rx_alive,
                   pc, frames, status_local, handle_local, ret, log, hist, pre>>

\* Timing parameters, base timestamp and the batch of samples.
TaskGen(t) ==
    /\ tasks[t].pc = "gen"
    /\ IF DivPanics(Unwrap(tasks[t].cur).sample_rate)
       THEN Finish(t, "panicked")
       ELSE \E ts_ok \in BOOLEAN :
              IF ts_ok
              THEN tasks' = [tasks EXCEPT ![t].pc = "send"]
              ELSE Finish(t, "done")
    /\ UNCHANGED <<batch_vars, lock, received, args, new_result, inner, task_handle, capacity, queue, rx_alive,
                   pc, frames, status_local, handle_local, ret, log, hist, pre>>

\* Mutant of TaskSend: a failed send is retried after the sleep.
TaskSendRetries(t) ==
    /\ tasks[t].pc = "send"
    /\ \/ /\ SendFails
          /\ tasks' = [tasks EXCEPT ![t].pc = "sleep"]
          /\ UNCHANGED <<queue, log>>
       \/ /\ SendReady
          /\ Enqueue(MakeBatch(Unwrap(tasks[t].cur)), t)
          /\ tasks' = [tasks EXCEPT ![t].pc = "sleep"]
    /\ UNCHANGED <<batch_vars, lock, received, args, new_result, inner, task_handle, capacity, rx_alive,
                   pc, frames, status_local, handle_local, ret, hist, pre>>

\* Mutant of TaskSend: the task clears running when its send fails.
TaskSendClearsRunning(t) ==
    /\ tasks[t].pc = "send"
    /\ \/ /\ SendFails
          /\ Finish(t, "done")
          /\ inner' = [inner EXCEPT !.running = FALSE]
          /\ UNCHANGED <<queue, log>>
       \/ /\ SendReady
          /\ Enqueue(MakeBatch(Unwrap(tasks[t].cur)), t)
          /\ tasks' = [tasks EXCEPT ![t].pc = "sleep"]
          /\ UNCHANGED inner
    /\ UNCHANGED <<batch_vars, lock, received, args, new_result, task_handle, capacity, rx_alive,
                   pc, frames, status_local, handle_local, ret, hist, pre>>

TaskSend(t) ==
    /\ tasks[t].pc = "send"
    /\ \/ /\ SendFails
          /\ Finish(t, "done")
          /\ UNCHANGED <<queue, log>>
       \/ /\ SendReady
          /\ Enqueue(MakeBatch(Unwrap(tasks[t].cur)), t)
          /\ tasks' = [tasks EXCEPT ![t].pc = "sleep"]
    /\ UNCHANGED <<batch_vars, lock, received, args, new_result, inner, task_handle, capacity, rx_alive,
                   pc, frames, status_local, handle_local, ret, hist, pre>>

TaskSleep(t) ==
    /\ tasks[t].pc = "sleep"
    /\ sleep_time(Unwrap(tasks[t].cur)) >= 0
    /\ tasks' = [tasks EXCEPT ![t].pc = "loop", ![t].cur = None]
    /\ UNCHANGED <<batch_vars, lock, received, args, new_result, inner, task_handle, capacity, queue, rx_alive,
                   pc, frames, status_local, handle_local, ret, log, hist, pre>>

\* ------------------------------------------------------------------ consumer
Recv ==
    /\ rx_alive
    /\ queue # <<>>
    /\ queue' = Tail(queue)
    /\ received' = Append(received, Head(queue))
    /\ UNCHANGED <<batch_vars, lock, args, new_result, inner, task_handle, capacity, rx_alive, tasks,
                   pc, frames, status_local, handle_local, ret, log, hist, pre>>

\* The consumer drops the Receiver; the buffered events go with it.
DropReceiver ==
    /\ rx_alive
    /\ rx_alive' = FALSE
    /\ queue' = <<>>
    /\ UNCHANGED <<batch_vars, lock, received, args, new_result, inner, task_handle, capacity, tasks,
                   pc, frames, status_local, handle_local, ret, log, hist, pre>>

Next ==
    \/ New
    \/ CallStart \/ StartCheck \/ StartSet \/ StartSpawn
    \/ NotifyRead \/ NotifySend
    \/ CallStop \/ StopCheck \/ StopTake \/ StopAwait \/ StopSet
    \/ CallShutdown \/ ShutCheck \/ ShutSet
    \/ GetStatus \/ GetConfig
    \/ DropRead \/ DropClean
    \/ \E t \in 1..Len(tasks) :
         TaskInit(t) \/ TaskLoop(t) \/ TaskGen(t) \/ TaskSend(t) \/ TaskSleep(t)
    \/ Recv \/ DropReceiver

Spec == Init /\ [][Next]_vars

\* ---------------------------------------------------------------- scheduling
\* A step of the foreground inside a call it has made (the caller awaits the
\* future), and of the drop it has begun.
FgStep ==
    \/ StartCheck \/ StartSet \/ StartSpawn
    \/ NotifyRead \/ NotifySend
    \/ StopCheck \/ StopTake \/ StopAwait \/ StopSet
    \/ ShutCheck \/ ShutSet
    \/ DropClean

\* A step of the spawned task t.
TaskStep(t) ==
    /\ t \in 1..Len(tasks)
    /\ (TaskInit(t) \/ TaskLoop(t) \/ TaskGen(t) \/ TaskSend(t) \/ TaskSleep(t))

\* The tokio runtime polls every future that can make progress, and the
\* consumer keeps receiving while it holds the Receiver.
FairSpec ==
    /\ Spec
    /\ WF_vars(FgStep)
    /\ \A t \in 1..MaxCalls : WF_vars(TaskStep(t))
    /\ WF_vars(Recv)

\* ================================================================== claims
LastCall == hist[Len(hist)]
\* The owner has the driver back from a call of op, and has made no call since.
AtReturn(op) == pc = "idle" /\ Len(hist) > 0 /\ LastCall.op = op
\* The events the foreground enqueued during the current (or last) top-level call.
CallEvents == {i \in FgEvents : i > pre.nlog}
IsData(i) == log[i].ev.type = "Data"
IsStatus(i, s) == log[i].ev = StatusChange(s) /\ log[i].by = 0

\* C1: at every reachable state at most one background task of the instance is
\* active (spawned and not yet terminated).
C1_AtMostOneActiveTask == Cardinality(ActiveTasks) <= 1

\* A second task has been spawned and is active, after the first one terminated.
C1_Witness == Len(tasks) = 2 /\ ~Active(1) /\ Active(2) /\ tasks[2].pc = "sleep"

\* C2: when start_acquisition returned Ok and the following stop_acquisition
\* returned Ok, status is Stopped, running is false and no task is active.
C2_StartThenStop ==
    (/\ AtReturn("stop_acquisition")
     /\ LastCall.result = "Ok"
     /\ Len(hist) >= 2
     /\ hist[Len(hist) - 1] = [op |-> "start_acquisition", result |-> "Ok"])
    => /\ inner.status = "Stopped"
       /\ ~inner.running
       /\ ActiveTasks = {}

\* start Ok, the task produced a batch, stop Ok.
C2_Witness ==
    /\ AtReturn("stop_acquisition")
    /\ hist = <<[op |-> "start_acquisition", result |-> "Ok"],
                [op |-> "stop_acquisition", result |-> "Ok"]>>
    /\ DataEvents # {}

\* C3: start_acquisition called while running fails with ConfigurationError and
\* leaves running, status, config and the task handle as they were, enqueues no
\* event and spawns no task.
C3_StartWhileRunning ==
    (AtReturn("start_acquisition") /\ pre.inner.running)
    => /\ LastCall.result = "ConfigurationError"
       /\ inner = pre.inner
       /\ task_handle = pre.task_handle
       /\ Len(tasks) = pre.ntasks
       /\ CallEvents = {}

\* A second start was rejected while the task of the first is still sampling.
C3_Witness ==
    /\ AtReturn("start_acquisition")
    /\ pre.inner.running
    /\ LastCall.result = "ConfigurationError"
    /\ task_handle = Some(1)
    /\ Active(1)

\* C4: start_acquisition called with no config stored and running false fails
\* with NotConfigured; running and status are unchanged, no event is enqueued
\* and no task is spawned.
C4_StartNotConfigured ==
    (AtReturn("start_acquisition") /\ pre.inner.config = None /\ ~pre.inner.running)
    => /\ LastCall.result = "NotConfigured"
       /\ inner = pre.inner
       /\ task_handle = pre.task_handle
       /\ Len(tasks) = pre.ntasks
       /\ CallEvents = {}

\* start_acquisition after a shutdown that cleared the config.
C4_Witness ==
    /\ AtReturn("start_acquisition")
    /\ pre.inner.config = None
    /\ LastCall.result = "NotConfigured"
    /\ Len(hist) >= 2
    /\ hist[Len(hist) - 1].op = "shutdown"

StartPassed ==
    AtReturn("start_acquisition") /\ ~pre.inner.running /\ pre.inner.config # None

\* C5 as claimed: whenever start_acquisition passes its precondition checks it
\* sets running=true and status=Running, enqueues StatusChange(Running) and
\* spawns exactly one background task.
C5_Original ==
    StartPassed
    => /\ inner.running /\ inner.status = "Running"
       /\ Cardinality(CallEvents) = 1
       /\ \A i \in CallEvents : IsStatus(i, "Running")
       /\ Len(tasks) = pre.ntasks + 1

\* C5 as amended: whenever start_acquisition passes its precondition checks it
\* sets running=true and status=Running; when the StatusChange send succeeds it
\* enqueues StatusChange(Running), spawns exactly one task, stores its handle and
\* returns Ok; when the send fails (Receiver gone) it returns Other, with no
\* event enqueued, no task spawned and the handle untouched.
C5_StartPassing ==
    StartPassed
    => /\ inner.running /\ inner.status = "Running"
       /\ inner.config = pre.inner.config
       /\ IF LastCall.result = "Ok"
          THEN /\ Cardinality(CallEvents) = 1
               /\ \A i \in CallEvents : IsStatus(i, "Running")
               /\ Len(tasks) = pre.ntasks + 1
               /\ task_handle = Some(Len(tasks))
          ELSE /\ LastCall.result = "Other"
               /\ ~rx_alive
               /\ CallEvents = {}
               /\ Len(tasks) = pre.ntasks
               /\ task_handle = pre.task_handle

\* A start that passed its checks, notified and spawned its task.
C5_Witness ==
    /\ StartPassed
    /\ LastCall.result = "Ok"
    /\ Len(tasks) = pre.ntasks + 1
    /\ \E i \in CallEvents : IsStatus(i, "Running")

\* C6: stop_acquisition called while running is false returns Ok and leaves
\* running, status and config unchanged (status is not set to Stopped), enqueues
\* no event; repeated calls have the same effect as one.
C6_StopWhileNotRunning ==
    (AtReturn("stop_acquisition") /\ ~pre.inner.running)
    => /\ LastCall.result = "Ok"
       /\ inner = pre.inner
       /\ task_handle = pre.task_handle
       /\ Len(tasks) = pre.ntasks
       /\ CallEvents = {}

\* Two stops in a row on a driver that never ran: status is still Ok.
C6_Witness ==
    /\ AtReturn("stop_acquisition")
    /\ hist = <<[op |-> "stop_acquisition", result |-> "Ok"],
                [op |-> "stop_acquisition", result |-> "Ok"]>>
    /\ inner.status = "Ok"
    /\ log = <<>>

\* C7: the background task has terminated before stop_acquisition sets status
\* Stopped and before StatusChange(Stopped) is enqueued: while status is Stopped
\* no task is active, and in the event history no Data event follows a
\* StatusChange(Stopped) without a StatusChange(Running) in between.
C7_StoppedAfterJoin ==
    /\ inner.status = "Stopped" => ActiveTasks = {}
    /\ \A i, j \in 1..Len(log) :
          (i < j /\ IsStatus(i, "Stopped") /\ IsData(j))
          => \E k \in (i + 1)..(j - 1) : IsStatus(k, "Running")

\* Data of a first run, StatusChange(Stopped), then a second run with Data.
C7_Witness ==
    \E i, j, k \in 1..Len(log) :
       /\ i < j /\ j < k
       /\ IsData(i) /\ IsStatus(j, "Stopped") /\ IsData(k)

NoPriorStart ==
    \A i \in 1..(Len(hist) - 1) : hist[i].op # "start_acquisition"

\* What holds whenever shutdown has returned Ok.
ShutdownPost ==
    (AtReturn("shutdown") /\ LastCall.result = "Ok")
    => /\ ~inner.running
       /\ ActiveTasks = {}
       /\ inner.config = None
       /\ get_config(inner) = "NotConfigured"
       /\ inner.status = "NotInitialized"
       /\ Len(log) > pre.nlog
       /\ IsStatus(Len(log), "NotInitialized")
       /\ pre.inner.running
          => /\ Len(log) > pre.nlog + 1
             /\ IsStatus(Len(log) - 1, "Stopped")

\* C8 as claimed: whenever shutdown returns Ok, running is false, no task is
\* active, the config is cleared, status is NotInitialized and
\* StatusChange(NotInitialized) is the last event enqueued, preceded by
\* StatusChange(Stopped) if acquisition was running; and shutdown with no prior
\* start_acquisition succeeds and enqueues exactly one event.
C8_Original ==
    /\ ShutdownPost
    /\ (AtReturn("shutdown") /\ NoPriorStart)
       => /\ LastCall.result = "Ok"
          /\ Len(log) = pre.nlog + 1

\* C8 as amended: the same, except that shutdown with no prior
\* start_acquisition succeeds and enqueues exactly one event provided the
\* consumer still holds the receiving end of the event stream.
C8_Shutdown ==
    /\ ShutdownPost
    /\ (AtReturn("shutdown") /\ NoPriorStart /\ rx_alive)
       => /\ LastCall.result = "Ok"
          /\ Len(log) = pre.nlog + 1
          /\ IsStatus(Len(log), "NotInitialized")

\* shutdown of a running driver returned Ok after the task produced data.
C8_Witness ==
    /\ AtReturn("shutdown")
    /\ LastCall.result = "Ok"
    /\ pre.inner.running
    /\ DataEvents # {}
    /\ IsStatus(Len(log), "NotInitialized")

\* The first top-level call made on the driver is start_acquisition.
StartsFirst ==
    \/ Len(hist) >= 1 /\ hist[1].op = "start_acquisition"
    \/ hist = <<>> /\ frames # <<>> /\ frames[1] = "start_acquisition"

\* C9: on a freshly constructed driver the first event after start_acquisition is
\* StatusChange(Running) and the next is a Data event of exactly batch_size
\* sample points; in general every Data event is preceded by the
\* StatusChange(Running) of its run, with only Data events in between.
C9_RunningBeforeData ==
    /\ (StartsFirst /\ Len(log) >= 1) => IsStatus(1, "Running")
    /\ (/\ hist = <<[op |-> "start_acquisition", result |-> "Ok"]>>
        /\ frames \in {<<>>, <<"drop">>}
        /\ Len(log) >= 2)
       => log[2].ev = Data(args.config.batch_size)
    /\ \A j \in 1..Len(log) :
          IsData(j)
          => \E i \in 1..(j - 1) :
                /\ IsStatus(i, "Running")
                /\ \A k \in (i + 1)..(j - 1) : IsData(k)

\* Fresh driver, one start, live consumer: StatusChange(Running) then Data.
C9_Witness ==
    /\ hist = <<[op |-> "start_acquisition", result |-> "Ok"]>>
    /\ pc = "idle"
    /\ rx_alive
    /\ Len(log) = 2
    /\ IsStatus(1, "Running")
    /\ IsData(2) /\ log[2].ev.n = args.config.batch_size

\* C10: a config with sample_rate = 0 or with no channel is rejected by new, so
\* every stored config has sample_rate > 0 (and a channel) and the background
\* task never divides by zero.
C10_ValidConfigStored ==
    /\ new_result = "Ok" => args.config.sample_rate > 0 /\ args.config.nchannels > 0
    /\ inner.config # None
       => Unwrap(inner.config).sample_rate > 0 /\ Unwrap(inner.config).nchannels > 0
    /\ \A t \in 1..Len(tasks) : tasks[t].pc # "panicked"

LogEvents == [i \in 1..Len(log) |-> log[i].ev]

\* C12: the number of buffered events never exceeds the capacity; a sender that
\* finds the queue full stays suspended, so nothing is dropped, overwritten or
\* reordered: the events received, followed by those still buffered, are the
\* events enqueued, in the order they were enqueued.
C12_BoundedFifo ==
    /\ Len(queue) <= capacity
    /\ Len(received) <= Len(log)
    /\ \A i \in 1..Len(received) : received[i] = log[i].ev
    /\ rx_alive => received \o queue = LogEvents

\* The queue is full, a task is suspended in its Data send, and the consumer
\* has already received events.
C12_Witness ==
    /\ rx_alive
    /\ Len(queue) = capacity
    /\ received # <<>>
    /\ \E t \in 1..Len(tasks) : tasks[t].pc = "send"
    /\ \E i \in 1..Len(queue) : queue[i].type = "Data"

ActiveAt(t) == t \in 1..Len(tasks) /\ Active(t)

\* C13: once the consumer has dropped the receiving end, a task that is in its
\* send leaves it only by terminating, nothing more is enqueued, and under fair
\* scheduling every active task eventually terminates, with or without a stop.
C13_TaskEndsAfterClose ==
    /\ [][\A t \in 1..Len(tasks) :
            (tasks[t].pc = "send" /\ ~rx_alive /\ tasks'[t] # tasks[t])
            => tasks'[t].pc = "done"]_vars
    /\ [][~rx_alive => log' = log]_vars
    /\ \A t \in 1..MaxCalls : (ActiveAt(t) /\ ~rx_alive) ~> ~ActiveAt(t)

\* The consumer is gone and the task has ended by itself: running is still set
\* and no stop_acquisition was called.
C13_Witness ==
    /\ ~rx_alive
    /\ pc = "idle"
    /\ hist = <<[op |-> "start_acquisition", result |-> "Ok"]>>
    /\ inner.running
    /\ tasks[1].pc = "done"
    /\ DataEvents # {}

StopPending == \E i \in 1..Len(frames) : frames[i] = "stop_acquisition"

\* C14: under fair scheduling and a consumer that keeps draining, every
\* stop_acquisition call made while running (directly or from shutdown)
\* eventually returns.
C14_StopReturns == (StopPending /\ pre.inner.running) ~> ~StopPending

\* stop_acquisition awaits the task while the task is suspended in a send on a
\* full queue: it returns only after the consumer has made room.
C14_Witness ==
    /\ pc = "stop_await"
    /\ rx_alive
    /\ Len(queue) = capacity
    /\ tasks[Unwrap(handle_local)].pc = "send"

\* C15: a driver dropped while its status is not NotInitialized has running
\* cleared, status NotInitialized and no config, without an event and without
\* waiting for the task; the orphaned task then eventually terminates and the last
\* Sender is released, provided the consumer keeps draining or drops the Receiver.
\* A driver dropped with status NotInitialized is left as it was.
C15_Drop ==
    /\ [](pc = "dropped"
          => /\ inner = (IF pre.inner.status # "NotInitialized"
                         THEN [config |-> None, running |-> FALSE,
                               status |-> "NotInitialized"]
                         ELSE pre.inner)
             /\ CallEvents = {})
    /\ [][(pc = "drop_clean" /\ pc' = "dropped") => tasks' = tasks]_vars
    /\ pc = "dropped" ~> Senders = 0

\* The driver was dropped while running: its task is still active.
C15_Witness ==
    /\ pc = "dropped"
    /\ pre.inner.status = "Running"
    /\ inner = MockInnerEmpty
    /\ ActiveTasks # {}
    /\ Senders = 1

\* The suspension points: the channel send and the join of the foreground, the
\* channel send and the sleep of a task.
FgSuspended == pc \in {"notify_send", "stop_await"}
TaskSuspended(t) == tasks[t].pc \in {"send", "sleep"}

C17_Lifecycle ==
    [][/\ inner'.status # inner.status
          => \/ /\ inner'.status = "Running"
                /\ inner.status \in {"Ok", "Stopped"}
                /\ frames[1] = "start_acquisition"
             \/ /\ inner'.status = "Stopped"
                /\ inner.status = "Running"
                /\ frames[Len(frames)] = "stop_acquisition"
             \/ /\ inner'.status = "NotInitialized"
                /\ frames[1] \in {"shutdown", "drop"}
             \/ /\ inner'.status = "Ok"
                /\ pc = "unborn"
       /\ (Len(log') > Len(log) /\ log'[Len(log')].ev.type = "StatusChange")
          => /\ log'[Len(log')].ev.status = inner.status
             /\ inner'.status = inner.status]_vars

\* A restart: status Running reached from Stopped, announced in that order.
C17_Witness ==
    /\ AtReturn("start_acquisition")
    /\ LastCall.result = "Ok"
    /\ pre.inner.status = "Stopped"
    /\ inner.status = "Running"
    /\ \E i \in 1..(Len(log) - 1) : IsStatus(i, "Stopped") /\ IsStatus(Len(log), "Running")

\* C18: get_status never returns an error and never waits: whenever the owner
\* has the driver it can run; it returns the stored status when the lock is
\* acquired and NotInitialized when the lock is poisoned, and it leaves the
\* shared state, the task handle, the queue and the tasks unchanged.
C18_GetStatus ==
    /\ [](/\ ret.op = "get_status" => ret.err = "Ok" /\ ret.status = inner.status
          /\ pc = "idle" => ENABLED GetStatus
          /\ get_status("Ok", inner) = inner.status
          /\ get_status("Poisoned", inner) = "NotInitialized")
    /\ [][(ret' # ret /\ ret'.op = "get_status")
          => UNCHANGED <<inner, task_handle, capacity, queue, rx_alive, tasks,
                         pc, frames, log, hist, lock>>]_vars

\* get_status returned Running while the task was suspended in a send on a
\* full queue.
C18_Witness ==
    /\ ret.op = "get_status"
    /\ ret.status = "Running"
    /\ rx_alive /\ Len(queue) = capacity
    /\ \E t \in 1..Len(tasks) : tasks[t].pc = "send"

InShutdown == frames # <<>> /\ frames[1] = "shutdown"

\* C19: shutdown never returns Ok when one of its steps failed: a StatusChange
\* send that fails inside shutdown (in the nested stop_acquisition or at the
\* end) makes shutdown return that error at once, so a shutdown that returned
\* Ok has enqueued every notification of the call.
C19_ShutdownErrors ==
    /\ [][(InShutdown /\ pc = "notify_send" /\ pc' # pc /\ log' = log)
          => /\ pc' = "idle"
             /\ hist' = Append(hist, [op |-> "shutdown", result |-> "Other"])]_vars
    /\ []((AtReturn("shutdown") /\ LastCall.result = "Ok")
          => Cardinality(CallEvents) = (IF pre.inner.running THEN 2 ELSE 1))

\* shutdown of a running driver returned the error of the nested
\* stop_acquisition: the config is still stored and the status is Stopped.
C19_Witness ==
    /\ AtReturn("shutdown")
    /\ LastCall.result = "Other"
    /\ pre.inner.running
    /\ inner.status = "Stopped"
    /\ inner.config # None

\* ---------------------------------------------------------- batch generation
\* The generation of one batch by the acquisition loop, sample by sample, with
\* the wall clock that the loop and test_data read.  The driver's other state
\* plays no part in it and stays as constructed.
MaxSamples == 3
MaxClock == 9000
ClockAtStart == 1000
BatchRates == {250, 1000}
TickSteps == {1000, 4000}

driver_vars == <<args, new_result, inner, task_handle, capacity, queue, rx_alive,
                 tasks, pc, frames, status_local, handle_local, ret, log, hist,
                 pre, received, lock>>

saturating_sub(a, b) == IF a >= b THEN a - b ELSE 0

\* Microseconds since the UNIX epoch, read from the system clock.
current_timestamp_micros == clock

\* The waveform is a function of relative_micros; the timestamp of the sample
\* is the wall clock at the time of the call.
test_data(relative_micros) ==
    [relative_micros |-> relative_micros, timestamp |-> current_timestamp_micros]

BatchInit ==
    /\ args = CHOOSE a \in NewArgs : TRUE
    /\ DriverInit
    /\ clock = ClockAtStart
    /\ gen = GenIdle

\* The system clock advances between any two steps of the task.
Tick ==
    /\ \E d \in TickSteps :
         /\ clock + d <= MaxClock
         /\ clock' = clock + d
    /\ UNCHANGED <<gen, driver_vars>>

\* The task reads the config and takes start_time as its zero reference.
BatchTaskInit ==
    /\ gen.pc = "idle"
    /\ \E r \in BatchRates, b \in 1..MaxSamples :
         gen' = [GenIdle EXCEPT !.pc = "loop", !.sample_rate = r, !.batch_size = b,
                                !.start_time = current_timestamp_micros]
    /\ UNCHANGED <<clock, driver_vars>>

\* Timing parameters of the iteration.
BatchBegin ==
    /\ gen.pc = "loop"
    /\ gen' = [gen EXCEPT !.pc = "fill",
                          !.sample_interval = sample_interval(gen),
                          !.base_timestamp =
                              saturating_sub(current_timestamp_micros, gen.start_time),
                          !.batch = <<>>]
    /\ UNCHANGED <<clock, driver_vars>>

\* One pass of  for i in 0..current_batch_size.
BatchPush ==
    /\ gen.pc = "fill"
    /\ Len(gen.batch) < gen.batch_size
    /\ LET i == Len(gen.batch)
           relative_timestamp == gen.base_timestamp + i * gen.sample_interval
       IN  gen' = [gen EXCEPT !.batch = Append(@, test_data(relative_timestamp))]
    /\ UNCHANGED <<clock, driver_vars>>

\* The loop is over: the batch is handed to tx.send as DriverEvent::Data.
BatchSend ==
    /\ gen.pc = "fill"
    /\ Len(gen.batch) = gen.batch_size
    /\ gen' = [gen EXCEPT !.pc = "sent"]
    /\ UNCHANGED <<clock, driver_vars>>

\* sleep(Duration::from_millis(sleep_time)), then the next iteration.
BatchSleep ==
    /\ gen.pc = "sent"
    /\ clock + 1000 * sleep_time(gen) <= MaxClock
    /\ clock' = clock + 1000 * sleep_time(gen)
    /\ gen' = [GenIdle EXCEPT !.pc = "loop", !.sample_rate = gen.sample_rate,
                              !.batch_size = gen.batch_size,
                              !.start_time = gen.start_time]
    /\ UNCHANGED driver_vars

BatchNext ==
    \/ Tick
    \/ BatchTaskInit \/ BatchBegin \/ BatchPush \/ BatchSend \/ BatchSleep

BatchSpec == BatchInit /\ [][BatchNext]_vars

\* C20: within every Data batch, sample i (from 0) carries the timestamp
\* base_timestamp + i * sample_interval, so the timestamps of consecutive
\* samples differ by exactly 1_000_000 / sample_rate microseconds.
C20_BatchTimestamps ==
    gen.pc = "sent" =>
        /\ \A i \in 1..Len(gen.batch) :
             gen.batch[i].timestamp
                 = gen.base_timestamp + (i - 1) * gen.sample_interval
        /\ \A i \in 1..(Len(gen.batch) - 1) :
             gen.batch[i + 1].timestamp - gen.batch[i].timestamp
                 = 1000000 \div gen.sample_rate

\* stop_acquisition has cleared running and awaits the task, which is suspended
\* in its Data send on a full queue whose Receiver the consumer still holds.
StopBlocked ==
    /\ pc = "stop_await"
    /\ ~inner.running
    /\ inner.status = "Running"
    /\ rx_alive
    /\ Len(queue) = capacity
    /\ handle_local # None
    /\ tasks[Unwrap(handle_local)].pc = "send"

\* C21: stop_acquisition has no timeout.  In the state StopBlocked neither the
\* foreground nor any task can take a step, and every step that is not the
\* consumer's (the queue and the Receiver stay as they are) changes nothing:
\* as long as the consumer does not drain, stop_acquisition does not return and
\* the status stays Running.
C21_StopBlocks ==
    /\ [](StopBlocked
          => /\ ~ENABLED FgStep
             /\ \A t \in 1..Len(tasks) : ~ENABLED TaskStep(t))
    /\ [][(StopBlocked /\ queue' = queue /\ rx_alive' = rx_alive)
          => (StopBlocked' /\ UNCHANGED vars)]_vars

\* The blocked stop was called directly by the owner of a driver whose task
\* had enqueued nothing yet: the queue is full of the StatusChange(Running)
\* that nobody has received.
C21_Witness ==
    /\ StopBlocked
    /\ frames = <<"stop_acquisition">>
    /\ received = <<>>
    /\ DataEvents = {}

\* The steps that write the shared MockInner: the construction, the three
\* foreground operations and the drop.
WritesInner == New \/ StartSet \/ StopCheck \/ StopSet \/ ShutSet \/ DropClean

\* C22: the background task never writes the shared driver state: every step
\* of a task leaves config, running and status unchanged, and a step that
\* changes one of them is a step of the constructor, of start_acquisition,
\* stop_acquisition or shutdown, or of the drop, which changes no task.
C22_TaskReadsOnly ==
    /\ [][\A t \in 1..Len(tasks) : TaskStep(t) => inner' = inner]_vars
    /\ [][inner' # inner => (WritesInner /\ tasks' = tasks)]_vars

\* A task has run a whole iteration (it enqueued a batch and came back to the
\* loop head or ended) while the driver state it read is still set.
C22_Witness ==
    /\ \E i \in DataEvents :
         /\ log[i].by \in 1..Len(tasks)
         /\ tasks[log[i].by].pc \in {"loop", "done"}
    /\ inner.running
    /\ inner.config # None

\* C23: whenever no foreground operation is in progress (after construction
\* and after each start_acquisition, stop_acquisition or shutdown has returned,
\* with Ok or with an error), running is true exactly when status is Running.
C23_RunningIffStatusRunning ==
    pc = "idle" => (inner.running <=> inner.status = "Running")

\* After a call that returned an error: a stop_acquisition of a running driver
\* could not send StatusChange(Stopped) and left running false and the status
\* Stopped.
C23_Witness ==
    /\ AtReturn("stop_acquisition")
    /\ LastCall.result = "Other"
    /\ pre.inner.running
    /\ ~inner.running
    /\ inner.status = "Stopped"

\* The Data batches of task t whose send completed while running was false.
DataAfterClear(t) ==
    {i \in DataEvents : log[i].by = t /\ ~log[i].running}

\* C24: after running has been set to false (by stop_acquisition, by the stop
\* inside shutdown, or by the drop), a background task enqueues at most one
\* further Data batch, the one of the iteration that had read running = true,
\* and at its next look at running it ends.
C24_OneMoreBatch ==
    /\ [](\A t \in 1..Len(tasks) : Cardinality(DataAfterClear(t)) <= 1)
    /\ [][\A t \in 1..Len(tasks) :
            (tasks[t].pc = "loop" /\ ~inner.running /\ tasks'[t] # tasks[t])
            => tasks'[t].pc = "done"]_vars

\* The task enqueued its one further batch after stop_acquisition had cleared
\* running, and has ended since.
C24_Witness ==
    \E t \in 1..Len(tasks) :
        /\ Cardinality(DataAfterClear(t)) = 1
        /\ tasks[t].pc = "done"
        /\ StopPending

====
